---- MODULE Spec2Model ----
(***************************************************************************)
(* The authenticated request client of the TalentSync frontend:            *)
(*   services/api.js      token store, axios request/response interceptors *)
(*   context/AuthContext  AuthProvider: bootstrap, login, signup, logout   *)
(*   App.jsx              AppContent: the loading / user gate of the UI    *)
(* JavaScript runs one handler at a time (event loop): every action below  *)
(* is one handler run to completion, with the promise continuations that   *)
(* follow it in the same turn.  Calls in flight are the per-request pc.    *)
(* A token pair of rotation n is (A_n, R_n); both halves are written n and *)
(* 0 is the empty string / an absent localStorage key.                     *)
(***************************************************************************)
EXTENDS Integers, FiniteSets, Sequences, TLC

\* Number of requests issued through the api client in one behaviour.
MaxReq == 2
\* Number of token pairs the backend issues in one behaviour.
MaxTok == 2
\* Number of pairs written by setTokens in one behaviour of SpecCrash.
MaxCrashTok == 3

ReqIds == 1..MaxReq
Tokens == 0..MaxTok

VARIABLES
  accessToken,    \* api.js module variable
  refreshToken,   \* api.js module variable
  lsAccess,       \* localStorage 'ja_access'
  lsRefresh,      \* localStorage 'ja_refresh'
  onLogout,       \* TRUE when a logout handler is registered
  user,           \* AuthProvider state: 0 is null
  loading,        \* AuthProvider state
  booted,         \* the AuthProvider effect has run in this page load
  urlAt,          \* access_token parameter of the address, 0 when absent
  urlRt,          \* refresh_token parameter of the address, 0 when absent
  reqs,           \* the requests issued through api, by id
  nreq,           \* number of ids used
  loginPc,        \* AuthPage: "idle", the authAPI call in flight ("login" /
                  \* "signup"), or "rejected" while its error is shown
  loginAuth,      \* Authorization header of that authAPI call, 0 for none
  srvValid,       \* backend: the refresh tokens it still accepts
  nextTok,        \* backend: number of pairs issued
  refreshDone,    \* history: number of refresh calls whose result was handled
  sinceLogout,    \* history: logout() completed and no pair installed by
                  \* login, signup or OAuth ingestion since
  tsPc,           \* statements of setTokens / clearTokens done (SpecCrash only)
  tsArg           \* the pair being written by setTokens (SpecCrash only)

vars == << accessToken, refreshToken, lsAccess, lsRefresh, onLogout, user,
           loading, booted, urlAt, urlRt, reqs, nreq, loginPc, loginAuth,
           srvValid,
           nextTok, refreshDone, sinceLogout, tsPc, tsArg >>

storeVars == << accessToken, refreshToken, lsAccess, lsRefresh >>

(***************************************************************************)
(* The client state as a value, so that the calls of one handler compose.  *)
(***************************************************************************)
Cur ==
  [ at |-> accessToken, rt |-> refreshToken, lsA |-> lsAccess,
    lsR |-> lsRefresh, hook |-> onLogout, user |-> user,
    loading |-> loading, sinceLogout |-> sinceLogout ]

Install(st) ==
  /\ accessToken' = st.at
  /\ refreshToken' = st.rt
  /\ lsAccess' = st.lsA
  /\ lsRefresh' = st.lsR
  /\ onLogout' = st.hook
  /\ user' = st.user
  /\ loading' = st.loading
  /\ sinceLogout' = st.sinceLogout

\* ---- token store (api.js) ----------------------------------------------

\* a setTokens that keeps the pair in memory only
M_SetTokens_NoPersist(st, access, refresh) ==
  [st EXCEPT !.at = access, !.rt = refresh]

SetTokens(st, access, refresh) ==
  [st EXCEPT !.at = access, !.rt = refresh, !.lsA = access, !.lsR = refresh]

ClearTokens(st) ==
  [st EXCEPT !.at = 0, !.rt = 0, !.lsA = 0, !.lsR = 0]

GetTokens(st) == [accessToken |-> st.at, refreshToken |-> st.rt]

\* a hasTokens() that is satisfied by either half of the pair
M_HasTokens_Either(st) == st.at # 0 \/ st.rt # 0

\* a hasTokens() that always answers yes
M_HasTokens_Always(st) == TRUE

HasTokens(st) == st.at # 0

\* ---- request interceptor: the Authorization header of an outgoing config

\* a request interceptor that attaches nothing
M_RequestInterceptor_NoAttach(st, hdr) == hdr

RequestInterceptor(st, hdr) ==
  IF st.at # 0 THEN st.at ELSE hdr

\* ---- calls made with the axios default instance -------------------------

\* a default instance that shares the request interceptor of api
M_PlainAxiosHeader_Attach(st) == st.at

\* axios.post(...) of login, signup and refresh: the interceptors are
\* registered on the api instance only, so no Authorization header is set
PlainAxiosHeader(st) == 0

\* ---- response interceptor: the body of the refresh call

\* a refresh call that sends the refresh token of the pair the failing
\* request was sent with
M_RefreshBody_TokenAtSend(st, r) == r.auth

\* { refresh_token: refreshToken }: the module variable, read when the 401
\* is handled
RefreshBody(st, r) == st.rt

\* ---- response interceptor: the condition that starts a refresh

\* the refresh condition without the status test
M_ShouldRefresh_AnyError(status, retry, rt) ==
  ~retry /\ rt # 0

\* the refresh condition without the _retry flag
M_ShouldRefresh_NoRetryFlag(status, retry, rt) ==
  status = 401 /\ rt # 0

\* a refresh condition behind a marker that is set by the first refresh and
\* never cleared
M_ShouldRefresh_MarkerStuck(status, retry, rt) ==
  status = 401 /\ ~retry /\ rt # 0 /\ refreshDone = 0

\* the refresh condition without the refresh token test
M_ShouldRefresh_NoTokenGuard(status, retry, rt) ==
  status = 401 /\ ~retry

ShouldRefresh(status, retry, rt) ==
  status = 401 /\ ~retry /\ rt # 0

\* a handler that forgets to flag the request as retried
M_MarkRetried_Forgets(r) == r

\* original._retry = true, set before the refresh call is made
MarkRetried(r) == [r EXCEPT !.retry = TRUE]

\* a refresh success path that only patches the header of the request
M_OnRefreshSuccess_NoStore(st, access, refresh) == st

\* the try body after the refresh call returned: setTokens(data.access_token,
\* data.refresh_token)
OnRefreshSuccess(st, access, refresh) ==
  SetTokens(st, access, refresh)

\* the catch block of the refresh: clearTokens(); if (onLogout) onLogout()
OnRefreshFailure(st) ==
  LET c == ClearTokens(st)
  IN  IF c.hook THEN [c EXCEPT !.user = 0] ELSE c

\* ---- continuations of the callers (AuthContext) -------------------------

\* logout() that forgets setUser(null)
M_LogoutContinuation_KeepUser(st) ==
  [ClearTokens(st) EXCEPT !.sinceLogout = TRUE]

\* logout(): try { await authAPI.logout() } catch {} clearTokens(); setUser(null)
LogoutContinuation(st) ==
  [ClearTokens(st) EXCEPT !.user = 0, !.sinceLogout = TRUE]

\* a bootstrap that ends loading in then() instead of finally()
M_MeContinuation_NoFinally(st, ok) ==
  IF ok THEN [st EXCEPT !.user = 1, !.loading = FALSE]
        ELSE [ClearTokens(st) EXCEPT !.user = 0]

\* a bootstrap whose catch only resets the user
M_MeContinuation_NoClear(st, ok) ==
  IF ok THEN [st EXCEPT !.user = 1, !.loading = FALSE]
        ELSE [st EXCEPT !.user = 0, !.loading = FALSE]

\* authAPI.me().then(setUser).catch(clearTokens; setUser(null)).finally(...)
MeContinuation(st, ok) ==
  IF ok THEN [st EXCEPT !.user = 1, !.loading = FALSE]
        ELSE [ClearTokens(st) EXCEPT !.user = 0, !.loading = FALSE]

\* pages that end the session when one of their calls fails
M_Continuation_ApiFailLogsOut(st, kind, ok) ==
  CASE kind = "me"     -> MeContinuation(st, ok)
    [] kind = "logout" -> LogoutContinuation(st)
    [] OTHER           -> IF ok THEN st ELSE [st EXCEPT !.user = 0]

\* pages that drop the pair when one of their calls fails
M_Continuation_ApiFailClears(st, kind, ok) ==
  CASE kind = "me"     -> MeContinuation(st, ok)
    [] kind = "logout" -> LogoutContinuation(st)
    [] OTHER           -> IF ok THEN st ELSE ClearTokens(st)

\* a logout() without the try / catch around authAPI.logout()
M_Continuation_LogoutRejects(st, kind, ok) ==
  CASE kind = "me"     -> MeContinuation(st, ok)
    [] kind = "logout" -> IF ok THEN LogoutContinuation(st) ELSE st
    [] OTHER           -> st

\* what the caller of a settled request does with it
Continuation(st, kind, ok) ==
  CASE kind = "me"     -> MeContinuation(st, ok)
    [] kind = "logout" -> LogoutContinuation(st)
    [] OTHER           -> st

\* login / signup after the backend accepted: setTokens(...); setUser(data.user)
LoginContinuation(st, tok) ==
  [SetTokens(st, tok, tok) EXCEPT !.user = 1, !.sinceLogout = FALSE]

\* a login that treats a rejection as the end of the session
M_LoginRejectedContinuation_Clears(st) ==
  [ClearTokens(st) EXCEPT !.user = 0]

\* login / signup after the backend refused: the await throws before
\* setTokens and setUser
LoginRejectedContinuation(st) == st

\* ---- requests -----------------------------------------------------------

NoReq ==
  [ pc |-> "new", kind |-> "api", retry |-> FALSE, auth |-> 0, rtSent |-> 0,
    rres |-> "none", newTok |-> 0, epoch |-> 0, nRefresh |-> 0,
    nResend |-> 0, cleared |-> FALSE, hooked |-> FALSE, stale |-> FALSE,
    res |-> "none", status |-> -1, oauth |-> FALSE, rAuth |-> 0 ]

InFlight(r) == r.pc \in {"sent", "refreshing", "refreshed"}

RefreshInFlight(r) == r.pc \in {"refreshing", "refreshed"}

\* logout() completing marks the refresh calls that are in flight at that
\* moment (history only)
MarkStale(rs, kind) ==
  IF kind = "logout"
  THEN [j \in ReqIds |->
          IF RefreshInFlight(rs[j]) THEN [rs[j] EXCEPT !.stale = TRUE] ELSE rs[j]]
  ELSE rs

\* api.get / api.post: a new config through the request interceptor
Issue(kind) ==
  /\ nreq < MaxReq
  /\ nreq' = nreq + 1
  /\ reqs' = [reqs EXCEPT ![nreq + 1] =
                [NoReq EXCEPT !.pc = "sent", !.kind = kind,
                              !.auth = RequestInterceptor(Cur, 0)]]

TypeOK ==
  /\ accessToken \in Tokens /\ refreshToken \in Tokens
  /\ lsAccess \in Tokens /\ lsRefresh \in Tokens
  /\ onLogout \in BOOLEAN /\ loading \in BOOLEAN /\ booted \in BOOLEAN
  /\ user \in {0, 1}
  /\ urlAt \in Tokens /\ urlRt \in Tokens
  /\ nreq \in 0..MaxReq
  /\ loginPc \in {"idle", "login", "signup", "rejected"}
  /\ loginAuth \in Tokens
  /\ srvValid \subseteq Tokens
  /\ nextTok \in Tokens
  /\ sinceLogout \in BOOLEAN
  /\ tsPc \in {"idle", "set1", "set2", "set3", "clear1", "clear2", "clear3"}

Init ==
  /\ accessToken = 0 /\ refreshToken = 0
  /\ lsAccess = 0 /\ lsRefresh = 0
  /\ onLogout = FALSE
  /\ user = 0
  /\ loading = TRUE
  /\ booted = FALSE
  /\ urlAt = 0 /\ urlRt = 0
  /\ reqs = [i \in ReqIds |-> NoReq]
  /\ nreq = 0
  /\ loginPc = "idle"
  /\ loginAuth = 0
  /\ srvValid = {}
  /\ nextTok = 0
  /\ refreshDone = 0
  /\ sinceLogout = FALSE
  /\ tsPc = "idle"
  /\ tsArg = << 0, 0 >>

\* ---- AuthProvider effect (bootstrap) -------------------------------------

\* an ingestion that is content with one of the two parameters
M_OAuthPresent_Either(at, rt) == at # 0 \/ rt # 0

\* the OAuth callback parameters are ingested only when both are present
OAuthPresent(at, rt) == at # 0 /\ rt # 0

\* an ingestion that defers to a pair already in the store
M_IngestOAuth_KeepPersisted(st, at, rt) ==
  IF st.at # 0 THEN st
  ELSE [SetTokens(st, at, rt) EXCEPT !.sinceLogout = FALSE]

\* if (at && rt) { setTokens(at, rt); history.replaceState(...) }
IngestOAuth(st, at, rt) ==
  [SetTokens(st, at, rt) EXCEPT !.sinceLogout = FALSE]

Bootstrap ==
  /\ ~booted
  /\ tsPc = "idle"
  /\ LET oauth == OAuthPresent(urlAt, urlRt)
         st0 == [Cur EXCEPT !.hook = TRUE]
         st1 == IF oauth THEN IngestOAuth(st0, urlAt, urlRt) ELSE st0
     IN  /\ booted' = TRUE
         /\ urlAt' = IF oauth THEN 0 ELSE urlAt
         /\ urlRt' = IF oauth THEN 0 ELSE urlRt
         /\ IF HasTokens(st1)
            THEN /\ nreq < MaxReq
                 /\ nreq' = nreq + 1
                 /\ reqs' = [reqs EXCEPT ![nreq + 1] =
                               [NoReq EXCEPT !.pc = "sent", !.kind = "me",
                                             !.oauth = oauth,
                                             !.auth = RequestInterceptor(st1, 0)]]
                 /\ Install(st1)
            ELSE /\ Install([st1 EXCEPT !.loading = FALSE])
                 /\ UNCHANGED << reqs, nreq >>
  /\ UNCHANGED << loginPc, loginAuth, srvValid, nextTok, refreshDone, tsPc,
                  tsArg >>

\* ---- the UI: AppContent shows the dashboard only when loaded with a user

DashboardShown == booted /\ ~loading /\ user # 0

AuthPageShown == booted /\ ~loading /\ user = 0

\* a page of the dashboard calls one of the api.* endpoints
ApiSend ==
  /\ DashboardShown
  /\ tsPc = "idle"
  /\ Issue("api")
  /\ UNCHANGED << accessToken, refreshToken, lsAccess, lsRefresh, onLogout,
                  user, loading, booted, urlAt, urlRt, loginPc, loginAuth, srvValid,
                  nextTok, refreshDone, sinceLogout, tsPc, tsArg >>

\* TopBar: logout() starts with authAPI.logout() = api.post('/auth/logout')
LogoutStart ==
  /\ DashboardShown
  /\ tsPc = "idle"
  /\ Issue("logout")
  /\ UNCHANGED << accessToken, refreshToken, lsAccess, lsRefresh, onLogout,
                  user, loading, booted, urlAt, urlRt, loginPc, loginAuth, srvValid,
                  nextTok, refreshDone, sinceLogout, tsPc, tsArg >>

LoginInFlight == loginPc \in {"login", "signup"}

\* AuthPage: login() / signup() post with plain axios, outside the pipeline
LoginSend ==
  /\ AuthPageShown
  /\ tsPc = "idle"
  /\ loginPc \in {"idle", "rejected"}
  /\ \E op \in {"login", "signup"} : loginPc' = op
  /\ loginAuth' = PlainAxiosHeader(Cur)
  /\ UNCHANGED << accessToken, refreshToken, lsAccess, lsRefresh, onLogout,
                  user, loading, booted, urlAt, urlRt, reqs, nreq, srvValid,
                  nextTok, refreshDone, sinceLogout, tsPc, tsArg >>

LoginAccepted ==
  /\ LoginInFlight
  /\ nextTok < MaxTok
  /\ Install(LoginContinuation(Cur, nextTok + 1))
  /\ srvValid' = srvValid \cup {nextTok + 1}
  /\ nextTok' = nextTok + 1
  /\ loginPc' = "idle"
  /\ loginAuth' = 0
  /\ UNCHANGED << booted, urlAt, urlRt, reqs, nreq, refreshDone, tsPc, tsArg >>

\* the backend refuses the credentials: the await in login() / signup()
\* throws, AuthPage.handleSubmit catches and shows the error
LoginRejected ==
  /\ LoginInFlight
  /\ loginPc' = "rejected"
  /\ loginAuth' = 0
  /\ Install(LoginRejectedContinuation(Cur))
  /\ UNCHANGED << booted, urlAt, urlRt, reqs, nreq, srvValid, nextTok,
                  refreshDone, tsPc, tsArg >>

\* ---- response interceptor -----------------------------------------------

\* 0 is a network error (error.response undefined)
Statuses == {200, 401, 500, 0}

ErrOf(status) ==
  CASE status = 401 -> "e401"
    [] status = 500 -> "e500"
    [] OTHER        -> "enet"

\* the error of a refresh call: its status, or none for a network error
RefreshErrOf(rres) == IF rres = "r401" THEN "r401" ELSE "rnet"

\* a handler that rejects with the error caught from the refresh call
M_RejectAfterRefreshFailure_RefreshError(error, refreshError) == refreshError

\* after the catch block the handler falls through to Promise.reject(error),
\* error being the one the handler was called with
RejectAfterRefreshFailure(error, refreshError) == error

\* the request settles: its caller's continuation runs in the same turn
Settle(st, i, ok, res, status) ==
  LET r == reqs[i]
      rs == [reqs EXCEPT ![i] = [r EXCEPT !.pc = IF ok THEN "ok" ELSE "err",
                                         !.res = res, !.status = status]]
  IN  /\ reqs' = MarkStale(rs, r.kind)
      /\ Install(Continuation(st, r.kind, ok))

\* ChatPage.send: a chat call that succeeds and opens a new thread calls
\* onNewThreadCreated, and DashboardPage.refreshThreads then issues
\* threadsAPI.list() in the same turn, whatever the session is by then
ChainsFollowUp(kind) == kind = "api"

\* the threadsAPI.list() call; it takes the place of the chat call, which
\* has resolved
FollowUp(st) ==
  [NoReq EXCEPT !.pc = "sent", !.kind = "follow",
                !.auth = RequestInterceptor(st, 0)]

\* the backend answers request i: (res) => res with the continuation of the
\* caller, or the error handler up to the point where it awaits the refresh
\* call
Respond(i) ==
  /\ reqs[i].pc = "sent"
  /\ tsPc = "idle"
  /\ \E status \in Statuses :
       /\ status = 200 => reqs[i].auth # 0
       /\ IF status = 200
          THEN /\ \E chain \in BOOLEAN :
                    /\ chain => ChainsFollowUp(reqs[i].kind)
                    /\ IF chain
                       THEN /\ reqs' = [reqs EXCEPT ![i] = FollowUp(Cur)]
                            /\ Install(Cur)
                       ELSE Settle(Cur, i, TRUE, "ok", status)
               /\ srvValid' = IF reqs[i].kind = "logout" THEN {} ELSE srvValid
          ELSE /\ IF ShouldRefresh(status, reqs[i].retry, refreshToken)
                  THEN /\ reqs' = [reqs EXCEPT ![i] =
                                     [MarkRetried(@) EXCEPT
                                               !.status = status,
                                               !.pc = "refreshing",
                                               !.rtSent = RefreshBody(Cur, reqs[i]),
                                               !.rAuth = PlainAxiosHeader(Cur),
                                               !.nRefresh = @ + 1,
                                               !.epoch = refreshDone]]
                       /\ Install(Cur)
                  ELSE Settle(Cur, i, FALSE, ErrOf(status), status)
               /\ srvValid' = srvValid
  /\ UNCHANGED << booted, urlAt, urlRt, nreq, loginPc, loginAuth, nextTok, refreshDone,
                  tsPc, tsArg >>

\* the backend handles POST /auth/refresh of request i
RefreshServe(i) ==
  /\ reqs[i].pc = "refreshing"
  /\ tsPc = "idle"
  /\ \/ /\ reqs[i].rtSent \in srvValid
        /\ nextTok < MaxTok
        /\ reqs' = [reqs EXCEPT ![i] = [@ EXCEPT !.pc = "refreshed",
                                                 !.rres = "ok",
                                                 !.newTok = nextTok + 1]]
        /\ srvValid' = (srvValid \ {reqs[i].rtSent}) \cup {nextTok + 1}
        /\ nextTok' = nextTok + 1
     \/ /\ reqs[i].rtSent \notin srvValid
        /\ reqs' = [reqs EXCEPT ![i] = [@ EXCEPT !.pc = "refreshed",
                                                 !.rres = "r401"]]
        /\ UNCHANGED << srvValid, nextTok >>
     \/ /\ reqs' = [reqs EXCEPT ![i] = [@ EXCEPT !.pc = "refreshed",
                                                 !.rres = "rnet"]]
        /\ UNCHANGED << srvValid, nextTok >>
  /\ UNCHANGED << accessToken, refreshToken, lsAccess, lsRefresh, onLogout,
                  user, loading, booted, urlAt, urlRt, nreq, loginPc, loginAuth,
                  refreshDone, sinceLogout, tsPc, tsArg >>

\* the rest of the error handler after the await: the try body on success
\* (setTokens, header, api(original)), the catch block and the final
\* Promise.reject(error) on failure
RefreshDeliver(i) ==
  /\ reqs[i].pc = "refreshed"
  /\ tsPc = "idle"
  /\ refreshDone' = refreshDone + 1
  /\ IF reqs[i].rres = "ok"
     THEN LET st1 == OnRefreshSuccess(Cur, reqs[i].newTok, reqs[i].newTok)
          IN  /\ reqs' = [reqs EXCEPT ![i] =
                            [@ EXCEPT !.pc = "sent",
                                      !.auth = RequestInterceptor(st1, reqs[i].newTok),
                                      !.nResend = @ + 1]]
              /\ Install(st1)
     ELSE LET st1 == OnRefreshFailure(Cur)
              r == [reqs[i] EXCEPT
                      !.cleared = TRUE, !.hooked = Cur.hook, !.pc = "err",
                      !.res = RejectAfterRefreshFailure(
                                ErrOf(reqs[i].status), RefreshErrOf(reqs[i].rres))]
          IN  /\ reqs' = MarkStale([reqs EXCEPT ![i] = r], r.kind)
              /\ Install(Continuation(st1, r.kind, FALSE))
  /\ UNCHANGED << booted, urlAt, urlRt, nreq, loginPc, loginAuth, srvValid, nextTok,
                  tsPc, tsArg >>

\* ---- page load -----------------------------------------------------------

\* the page is (re)loaded: api.js is evaluated again and reads localStorage,
\* React state starts over, calls in flight are never delivered and the
\* requests of the page that is left are forgotten.  The address is either
\* plain or the return of the Google OAuth redirect.
Reload ==
  /\ tsPc = "idle"
  /\ accessToken' = lsAccess
  /\ refreshToken' = lsRefresh
  /\ onLogout' = FALSE
  /\ user' = 0
  /\ loading' = TRUE
  /\ booted' = FALSE
  /\ loginPc' = "idle"
  /\ loginAuth' = 0
  /\ reqs' = [j \in ReqIds |->
                IF reqs[j].pc = "new" THEN reqs[j]
                                      ELSE [NoReq EXCEPT !.pc = "dropped"]]
  /\ refreshDone' = 0
  /\ \/ /\ urlAt' = 0 /\ urlRt' = 0
        /\ UNCHANGED << srvValid, nextTok >>
     \/ /\ nextTok < MaxTok
        /\ urlAt' = nextTok + 1 /\ urlRt' = nextTok + 1
        /\ srvValid' = srvValid \cup {nextTok + 1}
        /\ nextTok' = nextTok + 1
  /\ UNCHANGED << lsAccess, lsRefresh, nreq, sinceLogout, tsPc, tsArg >>

Next ==
  \/ Bootstrap
  \/ ApiSend
  \/ LogoutStart
  \/ LoginSend
  \/ LoginAccepted
  \/ LoginRejected
  \/ \E i \in ReqIds : Respond(i)
  \/ \E i \in ReqIds : RefreshServe(i)
  \/ \E i \in ReqIds : RefreshDeliver(i)
  \/ Reload

Spec == Init /\ [][Next]_vars

\* every backend call is eventually answered, with a response or an error,
\* and the handler that awaits it then runs
Responsive ==
  \A i \in ReqIds :
    /\ WF_vars(Respond(i))
    /\ WF_vars(RefreshServe(i))
    /\ WF_vars(RefreshDeliver(i))

\* the number of requests followed to their end
MaxLiveReq == 1

WithinLive == nreq' <= MaxLiveReq

NextLive ==
  \/ Bootstrap /\ WithinLive
  \/ ApiSend /\ WithinLive
  \/ LogoutStart /\ WithinLive
  \/ LoginSend
  \/ LoginAccepted
  \/ LoginRejected
  \/ \E i \in ReqIds : Respond(i)
  \/ \E i \in ReqIds : RefreshServe(i)
  \/ \E i \in ReqIds : RefreshDeliver(i)
  \/ Reload

SpecLive == Init /\ [][NextLive]_vars /\ Responsive

(***************************************************************************)
(* The token store statement by statement, with the process stopping at    *)
(* any point (tab killed, browser crash) and the page loaded again.        *)
(* setTokens and clearTokens are four statements each: two assignments     *)
(* and two localStorage writes.  tsPc counts the statements done.          *)
(***************************************************************************)

crashVars == << onLogout, user, loading, booted, urlAt, urlRt, reqs, nreq,
                loginPc, loginAuth, srvValid, refreshDone, sinceLogout >>

\* setTokens(access, refresh), one statement per step; the callers pass the
\* pair the backend has just issued
SetTokensStep ==
  /\ \/ /\ tsPc = "idle"
        /\ nextTok < MaxCrashTok
        /\ nextTok' = nextTok + 1
        /\ tsArg' = << nextTok + 1, nextTok + 1 >>
        /\ accessToken' = nextTok + 1
        /\ tsPc' = "set1"
        /\ UNCHANGED << refreshToken, lsAccess, lsRefresh >>
     \/ /\ tsPc = "set1"
        /\ refreshToken' = tsArg[2]
        /\ tsPc' = "set2"
        /\ UNCHANGED << accessToken, lsAccess, lsRefresh, nextTok, tsArg >>
     \/ /\ tsPc = "set2"
        /\ lsAccess' = tsArg[1]
        /\ tsPc' = "set3"
        /\ UNCHANGED << accessToken, refreshToken, lsRefresh, nextTok, tsArg >>
     \/ /\ tsPc = "set3"
        /\ lsRefresh' = tsArg[2]
        /\ tsPc' = "idle"
        /\ UNCHANGED << accessToken, refreshToken, lsAccess, nextTok, tsArg >>
  /\ UNCHANGED crashVars

\* clearTokens(), one statement per step
ClearTokensStep ==
  /\ \/ /\ tsPc = "idle"
        /\ accessToken' = 0
        /\ tsPc' = "clear1"
        /\ UNCHANGED << refreshToken, lsAccess, lsRefresh >>
     \/ /\ tsPc = "clear1"
        /\ refreshToken' = 0
        /\ tsPc' = "clear2"
        /\ UNCHANGED << accessToken, lsAccess, lsRefresh >>
     \/ /\ tsPc = "clear2"
        /\ lsAccess' = 0
        /\ tsPc' = "clear3"
        /\ UNCHANGED << accessToken, refreshToken, lsRefresh >>
     \/ /\ tsPc = "clear3"
        /\ lsRefresh' = 0
        /\ tsPc' = "idle"
        /\ UNCHANGED << accessToken, refreshToken, lsAccess >>
  /\ UNCHANGED << nextTok, tsArg >>
  /\ UNCHANGED crashVars

\* the process stops wherever it is and the page is loaded again: the
\* module variables are initialised from localStorage
CrashRestart ==
  /\ accessToken' = lsAccess
  /\ refreshToken' = lsRefresh
  /\ tsPc' = "idle"
  /\ UNCHANGED << lsAccess, lsRefresh, nextTok, tsArg >>
  /\ UNCHANGED crashVars

NextCrash ==
  \/ SetTokensStep
  \/ ClearTokensStep
  \/ CrashRestart

SpecCrash == Init /\ [][NextCrash]_vars

(***************************************************************************)
(* Start-up from whatever a stopped process left in localStorage, at an    *)
(* address that carries both, one or none of the OAuth parameters.         *)
(***************************************************************************)

\* the parameters of the address the page is loaded at: each of
\* access_token and refresh_token is there or not
AddressParams(tok) == {<< 0, 0 >>, << tok, tok >>, << tok, 0 >>, << 0, tok >>}

\* the process stops wherever it is and the page is loaded again: api.js
\* reads localStorage, React state starts over
Restart ==
  /\ accessToken' = lsAccess
  /\ refreshToken' = lsRefresh
  /\ tsPc' = "idle"
  /\ onLogout' = FALSE
  /\ user' = 0
  /\ loading' = TRUE
  /\ booted' = FALSE
  /\ loginPc' = "idle"
  /\ loginAuth' = 0
  /\ reqs' = [j \in ReqIds |->
                IF reqs[j].pc = "new" THEN reqs[j]
                                      ELSE [NoReq EXCEPT !.pc = "dropped"]]
  /\ refreshDone' = 0
  /\ \/ /\ urlAt' = 0 /\ urlRt' = 0
        /\ UNCHANGED nextTok
     \/ /\ nextTok < MaxCrashTok
        /\ \E p \in AddressParams(nextTok + 1) \ {<< 0, 0 >>} :
             urlAt' = p[1] /\ urlRt' = p[2]
        /\ nextTok' = nextTok + 1
  /\ UNCHANGED << lsAccess, lsRefresh, nreq, srvValid, sinceLogout, tsArg >>

\* setTokens and clearTokens are called by the mounted application only
NextBoot ==
  \/ Bootstrap
  \/ booted /\ SetTokensStep
  \/ booted /\ ClearTokensStep
  \/ Restart

SpecBoot == Init /\ [][NextBoot]_vars

(***************************************************************************)
(* Properties                                                              *)
(***************************************************************************)

\* the requests that entered the refresh flow on a 401 received while the
\* same number of refresh results had been handled as for request i: none
\* of their refreshes had completed when the others received their 401
WaitingGroup(i) ==
  {j \in ReqIds : reqs[j].retry /\ reqs[j].epoch = reqs[i].epoch}

RefreshCallsOf(S) == Cardinality({j \in S : reqs[j].nRefresh >= 1})

RefreshFailed(r) == r.rres \in {"r401", "rnet"} /\ r.pc = "err"

EmptyPair == [accessToken |-> 0, refreshToken |-> 0]

\* C1: single-flight refresh: the requests that each received a 401 before
\* any refresh completed cause exactly one POST /auth/refresh between them,
\* and those of them that were resent carry the identical new access token.
C1_SingleFlight ==
  \A i \in ReqIds :
    reqs[i].retry =>
      LET S == WaitingGroup(i)
      IN  /\ RefreshCallsOf(S) = 1
          /\ \A j, k \in S :
               (reqs[j].nResend >= 1 /\ reqs[k].nResend >= 1)
                 => reqs[j].auth = reqs[k].auth

\* C2: a refresh that was in flight when logout() completed and then
\* succeeds is discarded: once its result has been handled, and no login,
\* signup or OAuth ingestion has happened since the logout, the token store
\* and durable storage are empty and the user is null.
C2_LateRefreshDiscarded ==
  \A i \in ReqIds :
    (reqs[i].stale /\ reqs[i].rres = "ok" /\ ~RefreshInFlight(reqs[i])
       /\ sinceLogout)
      => /\ GetTokens(Cur) = EmptyPair
         /\ lsAccess = 0 /\ lsRefresh = 0
         /\ user = 0

\* C3: with a backend that invalidates a refresh token on first use, when
\* one refresh of a group of concurrently failed requests succeeded, no
\* other request of the group sent the same (now stale) refresh token, was
\* refused for it, and cleared the session.
C3_NoLogoutAfterSuccessfulRotation ==
  \A i, j \in ReqIds :
    (i # j /\ reqs[i].retry /\ j \in WaitingGroup(i) /\ reqs[i].rres = "ok")
      => ~(/\ reqs[j].rtSent = reqs[i].rtSent
           /\ reqs[j].rres = "r401"
           /\ reqs[j].cleared)

\* C4: when a refresh fails while several requests are in the refresh flow
\* together, the token store is cleared once and the logout handler is
\* invoked once for the whole group, and every request of the group that
\* has settled was rejected.
C4_ClearAndHookOnce ==
  \A i \in ReqIds :
    (reqs[i].retry /\ RefreshFailed(reqs[i])) =>
      LET S == WaitingGroup(i)
      IN  /\ Cardinality({j \in S : reqs[j].cleared}) = 1
          /\ Cardinality({j \in S : reqs[j].hooked}) <= 1
          /\ \A j \in S : reqs[j].pc # "ok"

\* C5: for one request at most one refresh call and at most one resend are
\* made; a resent request that fails (a second 401 included) is rejected to
\* its caller and starts no further refresh call.
C5_AtMostOneRefreshAndResend ==
  [][\A i \in ReqIds :
       /\ reqs'[i].nRefresh <= 1
       /\ reqs'[i].nResend <= 1
       /\ (/\ reqs[i].pc = "sent"
           /\ reqs[i].nResend = 1
           /\ reqs'[i].pc \notin {"sent", "ok", "dropped"})
            => /\ reqs'[i].pc = "err"
               /\ reqs'[i].nRefresh = reqs[i].nRefresh]_vars

\* a refresh succeeded, the resend received 401 again and was rejected
C5_Witness ==
  \E i \in ReqIds :
    /\ reqs[i].pc = "err" /\ reqs[i].res = "e401"
    /\ reqs[i].rres = "ok" /\ reqs[i].nResend = 1 /\ reqs[i].nRefresh = 1

\* C6: after logout() has completed and until a login, signup or OAuth
\* ingestion installs a new pair, getTokens() is the empty pair and a request
\* whose refresh was in flight at the logout is not resent with an
\* Authorization header.
C6_EmptyAfterLogout ==
  sinceLogout =>
    /\ GetTokens(Cur) = EmptyPair
    /\ \A i \in ReqIds :
         (reqs[i].stale /\ reqs[i].pc = "sent") => reqs[i].auth = 0

\* C7: pair atomicity: between the calls of the token store, the state
\* loaded from durable storage at start-up included, the access token is
\* non-empty exactly when the refresh token is non-empty.
C7_PairAtomicity ==
  tsPc = "idle" => ((accessToken # 0) <=> (refreshToken # 0))

\* C8: the token store never exposes, in memory or in durable storage, an
\* access token and a refresh token of different rotations, a restart after
\* a crash during a set or clear included.
C8_SameRotation ==
  tsPc = "idle" =>
    /\ (accessToken # 0 /\ refreshToken # 0) => accessToken = refreshToken
    /\ (lsAccess # 0 /\ lsRefresh # 0) => lsAccess = lsRefresh

\* C9 as stated: the user is non-null exactly when the token store holds a
\* non-empty pair.
C9_SessionIff ==
  (user # 0) <=> (accessToken # 0 /\ refreshToken # 0)

\* C9 amended: whenever the user is non-null the token store and durable
\* storage hold a non-empty pair.
C9_UserImpliesTokens ==
  user # 0 =>
    /\ accessToken # 0 /\ refreshToken # 0
    /\ lsAccess # 0 /\ lsRefresh # 0

\* the dashboard is shown after a refresh has rotated the pair
C9_Witness ==
  /\ user # 0
  /\ \E i \in ReqIds :
       /\ reqs[i].pc = "ok" /\ reqs[i].nResend = 1
       /\ accessToken = reqs[i].newTok

\* C10: transparent recovery: the refresh call carries the refresh token the
\* store holds when the 401 is handled; when it returns a new pair the store
\* and durable storage hold exactly that pair, the request is resent once
\* carrying the new access token, and a resend that succeeds is a success for
\* the caller, which for a plain api call changes neither store nor user.
C10_TransparentRecovery ==
  [][\A i \in ReqIds :
       /\ (reqs[i].pc = "sent" /\ reqs'[i].pc = "refreshing")
            => (reqs'[i].rtSent = refreshToken /\ refreshToken # 0)
       /\ (/\ reqs[i].pc = "refreshed" /\ reqs[i].rres = "ok"
           /\ reqs'[i].pc \notin {"refreshed", "dropped"})
            => /\ accessToken' = reqs[i].newTok
               /\ refreshToken' = reqs[i].newTok
               /\ lsAccess' = reqs[i].newTok
               /\ lsRefresh' = reqs[i].newTok
               /\ reqs'[i].pc = "sent"
               /\ reqs'[i].auth = reqs[i].newTok
               /\ reqs'[i].nResend = 1
       /\ (/\ reqs[i].pc = "sent" /\ reqs[i].nResend = 1
           /\ reqs'[i].pc = "ok")
            => /\ reqs'[i].res = "ok"
               /\ reqs[i].kind = "api"
                    => (storeVars' = storeVars /\ user' = user)]_vars

\* login gave (A1,R1), a call received 401, the refresh returned (A2,R2),
\* the resend carried A2 and succeeded
C10_Witness ==
  \E i \in ReqIds :
    /\ reqs[i].kind = "api" /\ reqs[i].pc = "ok" /\ reqs[i].res = "ok"
    /\ reqs[i].nResend = 1 /\ reqs[i].rtSent = 1 /\ reqs[i].newTok = 2
    /\ reqs[i].auth = 2
    /\ accessToken = 2 /\ refreshToken = 2 /\ lsAccess = 2 /\ lsRefresh = 2
    /\ user # 0

\* C11: when the refresh call fails, with a 401 of the refresh endpoint or
\* with a network error, the token store and durable storage are cleared,
\* the logout handler is invoked (the user becomes null), no further refresh
\* or resend is made for the request, and its caller is rejected with the
\* 401 error of the original request, not with the error of the refresh.
C11_RefreshFailure ==
  [][\A i \in ReqIds :
       (/\ reqs[i].pc = "refreshed"
        /\ reqs[i].rres \in {"r401", "rnet"}
        /\ reqs'[i].pc \notin {"refreshed", "dropped"})
         => /\ accessToken' = 0 /\ refreshToken' = 0
            /\ lsAccess' = 0 /\ lsRefresh' = 0
            /\ reqs'[i].cleared /\ reqs'[i].hooked /\ user' = 0
            /\ reqs'[i].pc = "err"
            /\ reqs'[i].res = "e401"
            /\ reqs'[i].nRefresh = reqs[i].nRefresh
            /\ reqs'[i].nResend = reqs[i].nResend]_vars

\* the refresh endpoint refused the refresh token and the request was
\* rejected with its own 401
C11_Witness ==
  /\ accessToken = 0 /\ lsAccess = 0 /\ user = 0
  /\ \E i \in ReqIds :
       /\ reqs[i].pc = "err" /\ reqs[i].rres = "r401" /\ reqs[i].res = "e401"
       /\ reqs[i].cleared /\ reqs[i].hooked /\ reqs[i].nResend = 0

\* C12: a 401 status is the only trigger of the refresh flow: a refresh call
\* is started only on a 401, and a request that fails with another status or
\* with no response is rejected with that same error while the pipeline makes
\* no refresh call, clears nothing and does not invoke the logout handler:
\* the state after the rejection is the one its caller's own continuation
\* produces, which for a plain api call is the state before.
C12_OnlyTrigger401 ==
  [][\A i \in ReqIds :
       /\ (reqs[i].pc = "sent" /\ reqs'[i].pc = "refreshing")
            => reqs'[i].status = 401
       /\ (/\ reqs[i].pc = "sent" /\ reqs'[i].pc = "err"
           /\ reqs'[i].status # 401)
            => /\ reqs'[i].res = ErrOf(reqs'[i].status)
               /\ reqs'[i].res \in {"e500", "enet"}
               /\ reqs'[i].nRefresh = reqs[i].nRefresh
               /\ reqs'[i].nResend = reqs[i].nResend
               /\ reqs'[i].cleared = reqs[i].cleared
               /\ reqs'[i].hooked = reqs[i].hooked
               /\ refreshDone' = refreshDone
               /\ Cur' = Continuation(Cur, reqs[i].kind, FALSE)
               /\ reqs[i].kind = "api"
                    => (storeVars' = storeVars /\ user' = user)]_vars

\* a plain api call failed with status 500 on its first send, the session
\* is as it was
C12_Witness ==
  \E i \in ReqIds :
    /\ reqs[i].kind = "api" /\ reqs[i].pc = "err" /\ reqs[i].res = "e500"
    /\ reqs[i].nRefresh = 0 /\ ~reqs[i].retry
    /\ accessToken # 0 /\ refreshToken # 0 /\ user # 0

\* request i is sent in this step: a new request, the follow-up of a chat
\* call, or the resend after a refresh
SentNow(i) ==
  /\ reqs'[i].pc = "sent"
  /\ \/ reqs[i].pc # "sent"
     \/ reqs'[i].kind # reqs[i].kind

\* C13: every request sent through the api client, the resend after a
\* refresh included, carries the access token the store holds at send time
\* when that is non-empty and no Authorization header when the store is
\* empty.
C13_BearerAtSend ==
  [][\A i \in ReqIds :
       SentNow(i) =>
         IF accessToken' # 0 THEN reqs'[i].auth = accessToken'
                             ELSE reqs'[i].auth = 0]_vars

\* a request sent while the store is empty carries no header
C13_Witness ==
  \E i \in ReqIds :
    /\ reqs[i].pc = "sent" /\ reqs[i].auth = 0
    /\ accessToken = 0 /\ refreshToken = 0

\* the resend after a refresh carries the new access token
C13_WitnessResend ==
  \E i \in ReqIds :
    /\ reqs[i].pc = "sent" /\ reqs[i].nResend = 1
    /\ reqs[i].auth = reqs[i].newTok /\ accessToken = reqs[i].newTok

\* C14: a login or signup call that the backend rejects is surfaced to the
\* caller as that rejection; nothing is sent again, no refresh call is made,
\* and the token store, durable storage and the user are as before the call.
C14_LoginRejected ==
  [][(LoginInFlight /\ loginPc' = "rejected")
       => /\ storeVars' = storeVars
          /\ user' = user
          /\ reqs' = reqs /\ nreq' = nreq
          /\ refreshDone' = refreshDone]_vars

\* a login was rejected while the store still held a pair (refilled by a
\* refresh that returned after logout): the pair is left alone
C14_Witness ==
  /\ loginPc = "rejected"
  /\ accessToken # 0 /\ lsAccess # 0
  /\ user = 0

\* ---- steps named by the claims on bootstrap and on the session ----------

\* the AuthProvider effect runs in this step
BootstrapStep == ~booted /\ booted'

\* request i settles in this step, successfully / with an error
SettlesOk(i) == InFlight(reqs[i]) /\ reqs'[i].pc = "ok"

SettlesErr(i) == InFlight(reqs[i]) /\ reqs'[i].pc = "err"

\* the refresh call of request i comes back in this step
RefreshSucceeds(i) ==
  reqs[i].pc = "refreshed" /\ reqs[i].rres = "ok" /\ reqs'[i].pc = "sent"

RefreshFails(i) ==
  reqs[i].pc = "refreshed" /\ reqs[i].rres # "ok" /\ reqs'[i].pc = "err"

LoginSucceeds == LoginInFlight /\ loginPc' = "idle" /\ booted'

\* C15: when the address carries both parameters (A3,R3), bootstrap installs
\* exactly (A3,R3) in the store and in durable storage, whatever was
\* persisted, strips the parameters from the address and calls me carrying
\* A3; when that me call succeeds the user is set and loading ends.
C15_OAuthIngestion ==
  [][/\ (BootstrapStep /\ OAuthPresent(urlAt, urlRt))
          => /\ accessToken' = urlAt /\ refreshToken' = urlRt
             /\ lsAccess' = urlAt /\ lsRefresh' = urlRt
             /\ urlAt' = 0 /\ urlRt' = 0
             /\ \E i \in ReqIds :
                  /\ reqs[i].pc = "new"
                  /\ reqs'[i].pc = "sent" /\ reqs'[i].kind = "me"
                  /\ reqs'[i].auth = urlAt
                  /\ reqs'[i].oauth
     /\ \A i \in ReqIds :
          (reqs[i].kind = "me" /\ reqs[i].oauth /\ SettlesOk(i))
             => user' = 1 /\ ~loading']_vars

\* the very first pair the client ever held came from the address, and the
\* me call that carried it resolved the user
C15_Witness ==
  \E i \in ReqIds :
    /\ reqs[i].kind = "me" /\ reqs[i].oauth /\ reqs[i].pc = "ok"
    /\ reqs[i].auth = 1 /\ accessToken = 1 /\ lsAccess = 1
    /\ nextTok = 1 /\ urlAt = 0
    /\ user = 1 /\ ~loading

\* an ingested pair took the place of a different persisted one
C15_WitnessReplaced ==
  \E i \in ReqIds :
    /\ reqs[i].kind = "me" /\ reqs[i].oauth /\ reqs[i].pc = "sent"
    /\ reqs[i].auth = 2 /\ accessToken = 2 /\ lsAccess = 2 /\ nextTok = 2

\* C16: when the me call of bootstrap fails, with or without a refresh
\* attempted and failed during the call, the store and durable storage are
\* empty, the user is null and loading has ended.
C16_MeFailure ==
  [][\A i \in ReqIds :
       (reqs[i].kind = "me" /\ SettlesErr(i))
          => /\ accessToken' = 0 /\ refreshToken' = 0
             /\ lsAccess' = 0 /\ lsRefresh' = 0
             /\ user' = 0 /\ ~loading']_vars

\* the me call failed after the refresh it triggered had failed
C16_Witness ==
  \E i \in ReqIds :
    /\ reqs[i].kind = "me" /\ reqs[i].pc = "err"
    /\ reqs[i].nRefresh = 1 /\ reqs[i].cleared
    /\ accessToken = 0 /\ lsAccess = 0 /\ user = 0 /\ ~loading

\* the me call failed with no refresh attempted
C16_WitnessPlain ==
  \E i \in ReqIds :
    /\ reqs[i].kind = "me" /\ reqs[i].pc = "err"
    /\ reqs[i].nRefresh = 0 /\ reqs[i].res = "e500"
    /\ accessToken = 0 /\ lsAccess = 0 /\ user = 0 /\ ~loading

\* C17: bootstrap with no parameters in the address and nothing persisted
\* ends loading at once with the user null and sends nothing.
C17_NoPairAnonymous ==
  [][(/\ BootstrapStep
      /\ ~OAuthPresent(urlAt, urlRt)
      /\ lsAccess = 0 /\ lsRefresh = 0)
       => /\ user' = 0 /\ ~loading'
          /\ reqs' = reqs /\ nreq' = nreq
          /\ storeVars' = storeVars]_vars

\* first start of a client that never held a pair
C17_Witness ==
  /\ booted /\ ~loading /\ user = 0
  /\ nreq = 0 /\ nextTok = 0
  /\ accessToken = 0 /\ lsAccess = 0

\* C18: within a page load the user becomes non-null only when a login or
\* signup is accepted or the me call of bootstrap succeeds, and becomes null
\* only when logout() completes or a refresh fails.
C18_UserTransitions ==
  [][/\ (user = 0 /\ user' # 0)
          => \/ LoginSucceeds
             \/ \E i \in ReqIds : reqs[i].kind = "me" /\ SettlesOk(i)
     /\ (user # 0 /\ user' = 0 /\ booted')
          => \/ \E i \in ReqIds :
                  /\ reqs[i].kind = "logout"
                  /\ InFlight(reqs[i]) /\ reqs'[i].pc \in {"ok", "err"}
             \/ \E i \in ReqIds : RefreshFails(i)]_vars

\* a page call ended the session through the logout hook after its refresh
\* failed
C18_Witness ==
  \E i \in ReqIds :
    /\ reqs[i].kind \in {"api", "follow"} /\ reqs[i].pc = "err"
    /\ reqs[i].hooked /\ reqs[i].cleared
    /\ user = 0 /\ ~loading /\ ~sinceLogout

\* ---- who changes the pair ------------------------------------------------

PairChanges == storeVars' # storeVars

PairWritten == PairChanges /\ (accessToken' # 0 \/ refreshToken' # 0)

PairCleared == PairChanges /\ accessToken' = 0 /\ refreshToken' = 0

WriteCause ==
  \/ LoginSucceeds
  \/ BootstrapStep /\ OAuthPresent(urlAt, urlRt)
  \/ \E i \in ReqIds : RefreshSucceeds(i)

ClearCauseClaimed ==
  \/ \E i \in ReqIds :
       /\ reqs[i].kind = "logout"
       /\ InFlight(reqs[i]) /\ reqs'[i].pc \in {"ok", "err"}
  \/ \E i \in ReqIds : RefreshFails(i)

MeFails == \E i \in ReqIds : reqs[i].kind = "me" /\ SettlesErr(i)

\* C19 as stated: the pair is written only by an accepted login or signup,
\* by the ingestion of the address parameters and by a successful refresh,
\* and cleared only by logout() and by a failed refresh.
C19_PairFrame ==
  [][/\ PairWritten => WriteCause
     /\ PairCleared => ClearCauseClaimed]_vars

\* C19 amended: as above, and the pair is also cleared when the me call of
\* bootstrap fails for any reason.
C19_PairFrameWithMe ==
  [][/\ PairWritten => WriteCause
     /\ PairCleared => (ClearCauseClaimed \/ MeFails)]_vars

\* the me call failed with no refresh attempted, and the pair it carried is
\* gone
C19_Witness ==
  \E i \in ReqIds :
    /\ reqs[i].kind = "me" /\ reqs[i].pc = "err"
    /\ reqs[i].nRefresh = 0 /\ reqs[i].auth # 0 /\ ~reqs[i].oauth
    /\ accessToken = 0 /\ refreshToken = 0
    /\ lsAccess = 0 /\ lsRefresh = 0

\* C20: after every setTokens and clearTokens durable storage holds the pair
\* that is in memory; a restart loads that pair, with the user null and
\* loading until bootstrap has run.
C20_PersistenceRoundTrip ==
  [][/\ lsAccess' = accessToken' /\ lsRefresh' = refreshToken'
     /\ ~booted' => /\ accessToken' = accessToken
                    /\ refreshToken' = refreshToken
                    /\ user' = 0 /\ loading']_vars

\* restarted with a rotated pair persisted: it is loaded, the user is not
C20_Witness ==
  /\ ~booted /\ loading /\ user = 0
  /\ accessToken = 2 /\ refreshToken = 2
  /\ lsAccess = 2 /\ lsRefresh = 2
  /\ refreshDone = 0 /\ nreq > 0

\* request i receives a 401 in this step
Receives401(i) ==
  /\ reqs[i].pc = "sent"
  /\ reqs'[i].pc \in {"err", "refreshing"}
  /\ reqs'[i].status = 401

\* the kinds of request whose caller does nothing to the session on failure
PageKinds == {"api", "follow"}

\* C21: a 401 received while the store holds no refresh token starts no
\* refresh call and is rejected to the caller as that 401; the store is not
\* cleared and the logout hook is not called by the pipeline, and for a call
\* of a page the pair, durable storage and the user are unchanged.
C21_NoRefreshToken ==
  [][\A i \in ReqIds :
       (Receives401(i) /\ refreshToken = 0)
          => /\ reqs'[i].pc = "err" /\ reqs'[i].res = "e401"
             /\ reqs'[i].nRefresh = reqs[i].nRefresh
             /\ reqs'[i].nResend = reqs[i].nResend
             /\ ~reqs'[i].cleared /\ ~reqs'[i].hooked
             /\ reqs[i].kind \in PageKinds
                  => /\ storeVars' = storeVars
                     /\ user' = user /\ onLogout' = onLogout]_vars

\* a page call was answered 401 with no refresh token in the store and was
\* rejected without any refresh
C21_Witness ==
  \E i \in ReqIds :
    /\ reqs[i].kind \in PageKinds
    /\ reqs[i].pc = "err" /\ reqs[i].status = 401 /\ reqs[i].res = "e401"
    /\ reqs[i].nRefresh = 0 /\ ~reqs[i].retry
    /\ refreshToken = 0 /\ accessToken = 0

\* the resend of request i is answered in this step
ResendAnswered(i) ==
  /\ reqs[i].pc = "sent" /\ reqs[i].nResend >= 1
  /\ reqs'[i] # reqs[i]
  /\ reqs'[i].kind = reqs[i].kind
  /\ booted'

\* C22: the answer to the resend made after a successful refresh settles the
\* request as it is: a failure of any status rejects the caller with the
\* error of the resend, no further refresh call or resend is made, the
\* store is not cleared and the logout hook is not called; for a call of a
\* page the pair and the user stay as they are.
C22_ResendOutcomeAsIs ==
  [][\A i \in ReqIds :
       ResendAnswered(i)
          => /\ reqs'[i].pc \in {"ok", "err"}
             /\ reqs'[i].pc = "ok" => reqs'[i].status = 200
             /\ reqs'[i].pc = "err"
                  => /\ reqs'[i].status \in Statuses \ {200}
                     /\ reqs'[i].res = ErrOf(reqs'[i].status)
             /\ reqs'[i].nRefresh = reqs[i].nRefresh
             /\ reqs'[i].nResend = reqs[i].nResend
             /\ ~reqs'[i].cleared /\ ~reqs'[i].hooked
             /\ reqs[i].kind \in PageKinds
                  => /\ storeVars' = storeVars
                     /\ user' = user]_vars

\* the resend of a page call was answered 401: the caller got that 401 and
\* the refreshed pair is still in the store
C22_Witness ==
  \E i \in ReqIds :
    /\ reqs[i].kind \in PageKinds
    /\ reqs[i].pc = "err" /\ reqs[i].res = "e401"
    /\ reqs[i].nRefresh = 1 /\ reqs[i].nResend = 1
    /\ ~reqs[i].cleared
    /\ accessToken = reqs[i].newTok /\ refreshToken = reqs[i].newTok
    /\ accessToken # 0 /\ user = 1

\* C23: a finished refresh never holds back a later one: whenever a request
\* not yet retried receives a 401 while the store holds a refresh token, its
\* own refresh call starts in the same step with that token, however many
\* refreshes have completed before and however they ended.
C23_RefreshNotBlocked ==
  [][\A i \in ReqIds :
       (Receives401(i) /\ ~reqs[i].retry /\ refreshToken # 0)
          => /\ reqs'[i].pc = "refreshing"
             /\ reqs'[i].nRefresh = reqs[i].nRefresh + 1
             /\ reqs'[i].rtSent = refreshToken
             /\ reqs'[i].epoch = refreshDone]_vars

\* a refresh has succeeded, and a request that received its 401 afterwards
\* has its own refresh call in flight
C23_Witness ==
  \E i, j \in ReqIds :
    /\ i # j
    /\ reqs[j].nRefresh = 1 /\ reqs[j].rres = "ok" /\ reqs[j].nResend = 1
    /\ reqs[i].pc = "refreshing" /\ reqs[i].epoch >= 1
    /\ reqs[i].rtSent = reqs[j].newTok

\* a refresh has failed, the user has logged in again, and a request that
\* received a 401 afterwards has its own refresh call in flight
C23_WitnessAfterFailure ==
  \E i, j \in ReqIds :
    /\ i # j
    /\ RefreshFailed(reqs[j]) /\ reqs[j].cleared
    /\ reqs[i].pc = "refreshing" /\ reqs[i].epoch >= 1
    /\ reqs[i].rtSent = 2 /\ reqs[i].auth = 2

\* the authAPI.logout() call of logout() settles in this step
LogoutSettles(i) ==
  /\ reqs[i].kind = "logout"
  /\ InFlight(reqs[i])
  /\ reqs'[i].pc \in {"ok", "err"}

\* C24: when the backend call of logout() settles, with success or with any
\* error, with or without a refresh (successful or failed) on the way,
\* logout() finishes in the same step with the store empty, durable storage
\* cleared and the user null.
C24_LogoutAlwaysClears ==
  [][\A i \in ReqIds :
       LogoutSettles(i)
          => /\ accessToken' = 0 /\ refreshToken' = 0
             /\ lsAccess' = 0 /\ lsRefresh' = 0
             /\ user' = 0
             /\ sinceLogout']_vars

\* the logout call got a 401, its refresh succeeded, the resend failed:
\* logout() still ended with everything cleared
C24_Witness ==
  \E i \in ReqIds :
    /\ reqs[i].kind = "logout" /\ reqs[i].pc = "err"
    /\ reqs[i].nRefresh = 1 /\ reqs[i].rres = "ok" /\ reqs[i].nResend = 1
    /\ accessToken = 0 /\ refreshToken = 0
    /\ lsAccess = 0 /\ lsRefresh = 0 /\ user = 0

\* the logout call got a 401 and its refresh failed
C24_WitnessRefreshFailed ==
  \E i \in ReqIds :
    /\ reqs[i].kind = "logout" /\ reqs[i].pc = "err"
    /\ reqs[i].cleared /\ reqs[i].rres = "r401"
    /\ accessToken = 0 /\ lsAccess = 0 /\ user = 0

\* the logout call succeeded
C24_WitnessOk ==
  \E i \in ReqIds :
    /\ reqs[i].kind = "logout" /\ reqs[i].pc = "ok"
    /\ accessToken = 0 /\ lsAccess = 0 /\ user = 0 /\ srvValid = {}

\* the refresh call of request i is sent in this step
RefreshSent(i) == reqs[i].pc = "sent" /\ reqs'[i].pc = "refreshing"

\* the login or signup call is sent in this step
LoginSent == ~LoginInFlight /\ LoginInFlight'

\* C25: the refresh, login and signup calls are sent without an
\* Authorization header whatever the store holds, and when one of them
\* fails no refresh call is started and nothing is sent again: a failed
\* refresh settles its request without another refresh or a resend, a
\* rejected login or signup leaves the requests alone and is not repeated.
C25_BypassPipeline ==
  [][/\ \A i \in ReqIds :
          /\ RefreshSent(i) => reqs'[i].rAuth = 0
          /\ (/\ reqs[i].pc = "refreshed" /\ reqs[i].rres # "ok"
              /\ reqs'[i].pc # "refreshed" /\ booted')
               => /\ reqs'[i].pc = "err"
                  /\ reqs'[i].nRefresh = reqs[i].nRefresh
                  /\ reqs'[i].nResend = reqs[i].nResend
     /\ LoginInFlight
          => (loginPc' = "rejected"
                => /\ reqs' = reqs /\ nreq' = nreq
                   /\ refreshDone' = refreshDone)
     /\ LoginSent => loginAuth' = 0]_vars

\* a login call is in flight without a header although the store holds a
\* pair, and a refresh call is in flight without a header as well
C25_Witness ==
  /\ LoginInFlight /\ loginAuth = 0 /\ accessToken # 0
  /\ \E i \in ReqIds : reqs[i].pc = "refreshing" /\ reqs[i].rAuth = 0

\* the store holds the pair most recently issued and no refresh call is in
\* flight: the refreshes made so far in this page were handled one after
\* another
RotationsInSequence ==
  /\ refreshDone >= 1
  /\ refreshToken = nextTok
  /\ \A k \in ReqIds : ~RefreshInFlight(reqs[k])

\* the part of C26 about the client alone: a request not yet retried whose
\* 401 is handled while the store holds a refresh token is not resent
\* directly, whatever access token it was sent with; it starts a refresh
\* call carrying the refresh token the store holds at that moment
RefreshTokenReadAtHandling ==
  [][\A i \in ReqIds :
       (Receives401(i) /\ ~reqs[i].retry /\ refreshToken # 0)
          => /\ reqs'[i].pc = "refreshing"
             /\ reqs'[i].nResend = reqs[i].nResend
             /\ reqs'[i].auth = reqs[i].auth
             /\ reqs'[i].rtSent = refreshToken]_vars

\* C26: a request not yet retried whose 401 is handled while the store holds
\* a refresh token starts a refresh call carrying the refresh token the
\* store holds at that moment instead of being resent directly; when the
\* refreshes are handled one after another, that token is one the backend
\* currently accepts.
C26_RefreshTokenAtHandling ==
  [][\A i \in ReqIds :
       (Receives401(i) /\ ~reqs[i].retry /\ refreshToken # 0)
          => /\ reqs'[i].pc = "refreshing"
             /\ reqs'[i].nResend = reqs[i].nResend
             /\ reqs'[i].rtSent = refreshToken
             /\ RotationsInSequence => reqs'[i].rtSent \in srvValid]_vars

\* a request sent with the first pair got its 401 after the refresh of
\* another request had rotated the store to the second pair: its refresh
\* call carries the second refresh token
C26_Witness ==
  \E i, j \in ReqIds :
    /\ i # j
    /\ reqs[j].rres = "ok" /\ reqs[j].nResend = 1 /\ reqs[j].newTok = 2
    /\ reqs[i].pc = "refreshing" /\ reqs[i].auth = 1 /\ reqs[i].rtSent = 2
    /\ reqs[i].rtSent \in srvValid
    /\ refreshToken = 2

\* request i has settled, or the page that issued it is gone
Settled(r) == r.pc \in {"ok", "err", "dropped"}

\* C27: with every backend call answered, every request issued through api
\* settles, and none takes more than one send, one refresh call and one
\* resend.
C27_EventuallySettles ==
  /\ [](\A i \in ReqIds : reqs[i].nRefresh <= 1 /\ reqs[i].nResend <= 1)
  /\ \A i \in ReqIds : InFlight(reqs[i]) ~> Settled(reqs[i])

\* a request settled within the running page after the three calls
C27_Witness ==
  \E i \in ReqIds :
    /\ reqs[i].pc \in {"ok", "err"}
    /\ reqs[i].nRefresh = 1 /\ reqs[i].nResend = 1

\* C28: with every backend call answered, the bootstrap of a page that stays
\* loaded ends: loading becomes false; and loading becomes false only in a
\* step that leaves the user set or the store and durable storage empty.
C28_BootstrapFinishes ==
  /\ [][(loading /\ ~loading')
          => \/ user' # 0
             \/ /\ accessToken' = 0 /\ refreshToken' = 0
                /\ lsAccess' = 0 /\ lsRefresh' = 0]_vars
  /\ (booted /\ loading) ~> (~loading \/ ~booted)

\* bootstrap ended with the user set after the me call was answered 401,
\* refreshed and resent
C28_Witness ==
  \E i \in ReqIds :
    /\ reqs[i].kind = "me" /\ reqs[i].pc = "ok"
    /\ reqs[i].nRefresh = 1 /\ reqs[i].nResend = 1
    /\ booted /\ ~loading /\ user = 1

\* bootstrap ended after the refresh made during the me call had failed
C28_WitnessRefreshFailed ==
  \E i \in ReqIds :
    /\ reqs[i].kind = "me" /\ reqs[i].pc = "err" /\ reqs[i].cleared
    /\ booted /\ ~loading /\ user = 0 /\ accessToken = 0

\* the access token bootstrap tests: the one just ingested from the address,
\* or else the one loaded from durable storage
AccessAtBootstrap ==
  IF OAuthPresent(urlAt, urlRt) THEN urlAt ELSE accessToken

MeSentNow ==
  \E i \in ReqIds :
    reqs[i].pc = "new" /\ reqs'[i].pc = "sent" /\ reqs'[i].kind = "me"

\* C29: bootstrap calls me exactly when the access token is non-empty,
\* whatever the refresh token is; with an empty access token it sends
\* nothing, ends loading with the user null and leaves the refresh token in
\* the store and in durable storage as it found them.
C29_AccessTokenDecides ==
  [][BootstrapStep
       => /\ (AccessAtBootstrap # 0) <=> MeSentNow
          /\ AccessAtBootstrap = 0
               => /\ reqs' = reqs /\ nreq' = nreq
                  /\ ~loading' /\ user' = 0
                  /\ storeVars' = storeVars]_vars

\* started with only a refresh token persisted: no call, the token is still
\* there
C29_Witness ==
  /\ booted /\ ~loading /\ user = 0
  /\ accessToken = 0 /\ lsAccess = 0
  /\ refreshToken # 0 /\ lsRefresh = refreshToken
  /\ \A i \in ReqIds : reqs[i].pc # "sent"
  /\ tsPc = "idle"

\* started with only an access token persisted: me is called
C29_WitnessAccessOnly ==
  /\ booted /\ loading
  /\ accessToken # 0 /\ refreshToken = 0 /\ lsRefresh = 0
  /\ \E i \in ReqIds :
       reqs[i].pc = "sent" /\ reqs[i].kind = "me" /\ reqs[i].auth = accessToken

\* exactly one of the two parameters is in the address
OneParamOnly(at, rt) == (at # 0) # (rt # 0)

\* C30: when the address carries only one of the two parameters, bootstrap
\* installs nothing (the store and durable storage keep what they held) and
\* leaves the address as it is.
C30_OAuthAllOrNothing ==
  [][(BootstrapStep /\ OneParamOnly(urlAt, urlRt))
       => /\ storeVars' = storeVars
          /\ urlAt' = urlAt /\ urlRt' = urlRt
          /\ \A i \in ReqIds : reqs'[i].pc = "sent" => ~reqs'[i].oauth]_vars

\* bootstrap has run at an address with the access_token parameter only:
\* the persisted pair is still in the store and the parameter still in the
\* address
C30_Witness ==
  /\ booted
  /\ urlAt # 0 /\ urlRt = 0
  /\ accessToken # 0 /\ accessToken # urlAt
  /\ accessToken = lsAccess /\ refreshToken = lsRefresh
  /\ refreshToken = accessToken

\* the same with the refresh_token parameter only and nothing persisted
C30_WitnessEmpty ==
  /\ booted /\ ~loading
  /\ urlAt = 0 /\ urlRt # 0
  /\ accessToken = 0 /\ refreshToken = 0 /\ lsAccess = 0 /\ lsRefresh = 0

====
